---- MODULE Spec2Model ----
(***************************************************************************)
(* A model of src/led.c: a kernel module that steps four GPIO lines        *)
(* (LED1..LED4) through one of three cyclic sequences from a kernel        *)
(* thread (flash), with the mode and the blink period readable and         *)
(* writable through sysfs attributes (mode_show/mode_store,                *)
(* period_show/period_store), set up by erpi_LED_init and torn down by     *)
(* erpi_LED_exit.                                                           *)
(*                                                                         *)
(* Text is modelled as sequences of one-character strings.  A buffer handed *)
(* to a store callback holds the payload followed by a NUL; count is the   *)
(* payload's length.  32-bit unsigned values that may exceed TLC's integer *)
(* range are kept as records [hi, lo] of two 16-bit halves.                *)
(***************************************************************************)
EXTENDS Integers, Sequences, FiniteSets, TLC

\* ------------------------------------------------------------------ pins
LED1 == 5
LED2 == 6
LED3 == 13
LED4 == 19
DefaultGpioLED == 17
DefaultBlinkPeriod == 1000
MinPeriodExclusive == 1
MaxPeriod == 10000

LEDS == {LED1, LED2, LED3, LED4}

\* enum modes { CORRE, IZQ, DER }
CORRE == 0
IZQ == 1
DER == 2
Modes == {CORRE, IZQ, DER}
\* The default mode set to IZQ.
DefaultMode_Izq == IZQ
DefaultMode == DER

\* ---------------------------------------------------------------- bounds
\* Number of ticks whose applied pattern is recorded in trace.
MaxTicks == 8
\* Cap of the counter of tick bodies run after a stop request.
StopTickCap == 3

\* ------------------------------------------------------------------ text
NUL == "NUL"
NL == "\n"
Digits == <<"0", "1", "2", "3", "4", "5", "6", "7", "8", "9">>
DigitChars == {Digits[i] : i \in 1..10}

DigitVal(c) == CHOOSE d \in 0..9 : Digits[d + 1] = c

\* The character at 1-based position i of a NUL-terminated buffer.
CharAt(s, i) == IF i <= Len(s) THEN s[i] ELSE NUL

TokIzq == <<"i", "z", "q">>
TokCorre == <<"c", "o", "r", "r", "e">>
TokDer == <<"d", "e", "r">>

\* strncmp(a, b, n) == 0 : compare at most n characters, stopping at the
\* first difference or at a NUL present in both.
RECURSIVE StrNEqFrom(_, _, _, _)
StrNEqFrom(a, b, n, i) ==
    IF i > n THEN TRUE
    ELSE IF CharAt(a, i) # CharAt(b, i) THEN FALSE
    ELSE IF CharAt(a, i) = NUL THEN TRUE
    ELSE StrNEqFrom(a, b, n, i + 1)

StrNCmpEq0(a, b, n) == StrNEqFrom(a, b, n, 1)

\* sprintf(buf, "%d", n) for 0 <= n.
RECURSIVE DecimalOf(_)
DecimalOf(n) ==
    IF n < 10 THEN <<Digits[n + 1]>>
    ELSE Append(DecimalOf(n \div 10), Digits[(n % 10) + 1])

\* --------------------------------------------------- 32-bit arithmetic
Half == 65536

U32(n) == [hi |-> n \div Half, lo |-> n % Half]

\* v * 10 + d (mod 2^32), the accumulation step of the kernel's number parser.
MulAdd10(v, d) ==
    LET lo2 == v.lo * 10 + d
        hi2 == v.hi * 10 + (lo2 \div Half)
    IN  [hi |-> hi2 % Half, lo |-> lo2 % Half]

\* -v (mod 2^32)
Negate32(v) ==
    IF v.lo = 0
    THEN [hi |-> (Half - v.hi) % Half, lo |-> 0]
    ELSE [hi |-> (Half - 1) - v.hi, lo |-> Half - v.lo]

RECURSIVE ParseDigits(_, _, _)
ParseDigits(s, i, acc) ==
    IF CharAt(s, i) \in DigitChars
    THEN ParseDigits(s, i + 1, MulAdd10(acc, DigitVal(CharAt(s, i))))
    ELSE acc

RECURSIVE SkipSpaces(_, _)
SkipSpaces(s, i) ==
    IF CharAt(s, i) \in {" ", NL} THEN SkipSpaces(s, i + 1) ELSE i

\* sscanf(buf, "%du", &period): skip white space, an optional '-', then the
\* decimal digits; the value is stored through an int pointer, i.e. truncated
\* to 32 bits.  ok = FALSE when no digit is found: nothing is stored.
ScanDecimal(buf) ==
    LET i == SkipSpaces(buf, 1)
        neg == CharAt(buf, i) = "-"
        j == IF neg THEN i + 1 ELSE i
    IN  IF CharAt(buf, j) \notin DigitChars
        THEN [ok |-> FALSE, val |-> U32(0)]
        ELSE LET v == ParseDigits(buf, j, U32(0))
             IN  [ok |-> TRUE, val |-> IF neg THEN Negate32(v) ELSE v]

\* (period > 1) && (period <= 10000) on an unsigned int
PeriodInRange(v) ==
    v.hi = 0 /\ v.lo > MinPeriodExclusive /\ v.lo <= MaxPeriod

\* ------------------------------------------------------- sequence table
AllHigh == [l \in LEDS |-> TRUE]
AllLow == [l \in LEDS |-> FALSE]

\* The four gpio_set_value calls of one case: line l high, the others low.
Only(l) == [x \in LEDS |-> x = l]

\* SwitchDER with case 2 going back to 0, so that LED4 is never reached.
SwitchDER_Short(st, g) ==
    CASE st = 0 -> [gpio |-> Only(LED1), state |-> 1]
      [] st = 1 -> [gpio |-> Only(LED2), state |-> 2]
      [] st = 2 -> [gpio |-> Only(LED3), state |-> 0]
      [] st = 3 -> [gpio |-> Only(LED4), state |-> 0]
      [] OTHER  -> [gpio |-> g, state |-> 0]

\* SwitchDER whose default case switches every line off before it restarts.
SwitchDER_Blank(st, g) ==
    CASE st = 0 -> [gpio |-> Only(LED1), state |-> 1]
      [] st = 1 -> [gpio |-> Only(LED2), state |-> 2]
      [] st = 2 -> [gpio |-> Only(LED3), state |-> 3]
      [] st = 3 -> [gpio |-> Only(LED4), state |-> 0]
      [] OTHER  -> [gpio |-> AllLow, state |-> 0]

\* switch (state) of the mode==DER branch
SwitchDER(st, g) ==
    CASE st = 0 -> [gpio |-> Only(LED1), state |-> 1]
      [] st = 1 -> [gpio |-> Only(LED2), state |-> 2]
      [] st = 2 -> [gpio |-> Only(LED3), state |-> 3]
      [] st = 3 -> [gpio |-> Only(LED4), state |-> 0]
      [] OTHER  -> [gpio |-> g, state |-> 0]

\* SwitchIZQ with case 3 going on to 4, as the corre sequence does.
SwitchIZQ_ToFour(st, g) ==
    CASE st = 0 -> [gpio |-> Only(LED4), state |-> 1]
      [] st = 1 -> [gpio |-> Only(LED3), state |-> 2]
      [] st = 2 -> [gpio |-> Only(LED2), state |-> 3]
      [] st = 3 -> [gpio |-> Only(LED1), state |-> 4]
      [] OTHER  -> [gpio |-> g, state |-> 0]

\* SwitchIZQ that turns back after LED2 and never reaches LED1.
SwitchIZQ_TurnsBack(st, g) ==
    CASE st = 0 -> [gpio |-> Only(LED4), state |-> 1]
      [] st = 1 -> [gpio |-> Only(LED3), state |-> 2]
      [] st = 2 -> [gpio |-> Only(LED2), state |-> 3]
      [] st = 3 -> [gpio |-> Only(LED3), state |-> 0]
      [] OTHER  -> [gpio |-> g, state |-> 0]

\* SwitchIZQ whose default case restarts the sequence at once: it lights the
\* first line of the sequence and goes on to 1.
SwitchIZQ_Restart(st, g) ==
    CASE st = 0 -> [gpio |-> Only(LED4), state |-> 1]
      [] st = 1 -> [gpio |-> Only(LED3), state |-> 2]
      [] st = 2 -> [gpio |-> Only(LED2), state |-> 3]
      [] st = 3 -> [gpio |-> Only(LED1), state |-> 0]
      [] OTHER  -> [gpio |-> Only(LED4), state |-> 1]

\* switch (state) of the mode==IZQ branch
SwitchIZQ(st, g) ==
    CASE st = 0 -> [gpio |-> Only(LED4), state |-> 1]
      [] st = 1 -> [gpio |-> Only(LED3), state |-> 2]
      [] st = 2 -> [gpio |-> Only(LED2), state |-> 3]
      [] st = 3 -> [gpio |-> Only(LED1), state |-> 0]
      [] OTHER  -> [gpio |-> g, state |-> 0]

\* SwitchCORRE with case 5 counting on to 6 instead of wrapping to 0.
SwitchCORRE_NoWrap(st, g) ==
    CASE st = 0 -> [gpio |-> Only(LED4), state |-> 1]
      [] st = 1 -> [gpio |-> Only(LED3), state |-> 2]
      [] st = 2 -> [gpio |-> Only(LED2), state |-> 3]
      [] st = 3 -> [gpio |-> Only(LED1), state |-> 4]
      [] st = 4 -> [gpio |-> Only(LED2), state |-> 5]
      [] st = 5 -> [gpio |-> Only(LED3), state |-> 6]
      [] OTHER  -> [gpio |-> g, state |-> 0]

\* switch (state) of the else branch (mode CORRE)
SwitchCORRE(st, g) ==
    CASE st = 0 -> [gpio |-> Only(LED4), state |-> 1]
      [] st = 1 -> [gpio |-> Only(LED3), state |-> 2]
      [] st = 2 -> [gpio |-> Only(LED2), state |-> 3]
      [] st = 3 -> [gpio |-> Only(LED1), state |-> 4]
      [] st = 4 -> [gpio |-> Only(LED2), state |-> 5]
      [] st = 5 -> [gpio |-> Only(LED3), state |-> 0]
      [] OTHER  -> [gpio |-> g, state |-> 0]

\* The body of one loop iteration once the branch b is chosen.
Switch(b, st, g) ==
    IF b = DER THEN SwitchDER(st, g)
    ELSE IF b = IZQ THEN SwitchIZQ(st, g)
    ELSE SwitchCORRE(st, g)

\* Number of steps of the sequence of branch b.
SeqLen(b) == IF b = CORRE THEN 6 ELSE 4

\* ------------------------------------------------------ sysfs callbacks
\* ModeText with the texts of IZQ and DER exchanged.
ModeText_Swapped(m) ==
    CASE m = CORRE -> TokCorre \o <<NL>>
      [] m = IZQ   -> TokDer \o <<NL>>
      [] m = DER   -> TokIzq \o <<NL>>
      [] OTHER     -> <<"L", "K", "M", " ", "E", "r", "r", "o", "r", NL>>

\* mode_show: the text written to buf
ModeText(m) ==
    CASE m = CORRE -> TokCorre \o <<NL>>
      [] m = IZQ   -> TokIzq \o <<NL>>
      [] m = DER   -> TokDer \o <<NL>>
      [] OTHER     -> <<"L", "K", "M", " ", "E", "r", "r", "o", "r", NL>>

\* mode_store: the mode after a write of count characters held in buf
ModeAfterStore(buf, count, m) ==
    IF StrNCmpEq0(buf, TokIzq, count - 1) THEN IZQ
    ELSE IF StrNCmpEq0(buf, TokCorre, count - 1) THEN CORRE
    ELSE IF StrNCmpEq0(buf, TokDer, count - 1) THEN DER
    ELSE m

\* period_show: the text written to buf
PeriodText(p) == DecimalOf(p) \o <<NL>>

\* period_store: the blink period after the write, given the value left in
\* the local variable period by sscanf.
PeriodAfterStore(period, p) ==
    IF PeriodInRange(period) THEN period.lo ELSE p

\* ----------------------------------------------------------------- state
VARIABLES
    mode,         \* static enum modes mode
    blinkPeriod,  \* static unsigned int blinkPeriod (module parameter)
    gpioLED,      \* static unsigned int gpioLED (module parameter)
    ledOn,        \* static bool ledOn
    state,        \* static unsigned char state of flash()
    gpio,         \* the level of each of the lines LED1..LED4
    requested,    \* the lines this module holds (gpio_request succeeded)
    exported,     \* the lines exported to /sys/class/gpio
    sysfs,        \* whether the erpi kobject and its attribute group exist
    modpc,        \* position of module load/unload
    pc,           \* position of the flash thread
    shouldStop,   \* kthread_should_stop()
    m1,           \* the value of mode loaded for the test mode==DER
    branch,       \* the branch of flash() the current iteration runs
    slept,        \* argument of the msleep call in progress, -1 when awake
    tick,         \* history: branch and counter of the last loop iteration
    trace,        \* history: the iterations run while no store has been made
    written,      \* history: a store callback has run since the initial state
    afterStop,    \* history: iterations run after kthread_stop was called
    lateWrite,    \* history: a loop iteration wrote a line after its release
    modesHeld,    \* history: the values mode has had in the iteration under way
    lastOp,       \* history: the last sysfs callback, its buffer and result
    modeLog       \* history: the last mode write and the mode read after it

vars == <<mode, blinkPeriod, gpioLED, ledOn, state, gpio, requested, exported,
          sysfs, modpc, pc, shouldStop, m1, branch, slept, tick, trace,
          written, afterStop, lateWrite, modesHeld, lastOp, modeLog>>

ctlvars == <<mode, blinkPeriod, written>>
modvars == <<ledOn, requested, exported, sysfs, modpc, gpioLED, shouldStop>>
loopvars == <<state, gpio, pc, m1, branch, slept, tick, afterStop, lateWrite>>
opvars == <<lastOp, modeLog>>

NoMode == -1
NoOp == [op |-> "none", buf |-> <<>>, out |-> <<>>, mode0 |-> NoMode,
         period0 |-> -1]
NoLog == [wbuf |-> <<>>, mode0 |-> NoMode, echo |-> FALSE, rout |-> <<>>]
NoTick == [branch |-> NoMode, pre |-> -1]

\* Values of the module parameters at load time.
StartupPeriods == {0, DefaultBlinkPeriod}
StartupGpioLED == {DefaultGpioLED, LED1}

\* Buffers written to the mode attribute.
ModePayloads ==
    {TokIzq \o <<NL>>, TokCorre \o <<NL>>, TokDer \o <<NL>>, TokDer,
     <<NL>>, <<"i", NL>>, <<"c", "o", "r", NL>>, TokIzq \o <<"x", NL>>,
     <<"b", "o", "g", "u", "s", NL>>}

\* Buffers written to the blinkPeriod attribute.
PeriodPayloads ==
    {<<"0", NL>>, <<"1", NL>>, <<"2", NL>>,
     <<"1", "0", "0", "0", "0", NL>>, <<"1", "0", "0", "0", "1", NL>>,
     <<"-", "5", NL>>,
     <<"4", "2", "9", "4", "9", "6", "7", "2", "9", "8", NL>>,
     <<"a", "b", NL>>, <<NL>>}

\* Values an uninitialised unsigned int period may hold.
GarbagePeriods == {U32(0), U32(7)}

Init ==
    /\ mode = DefaultMode
    /\ blinkPeriod \in StartupPeriods
    /\ gpioLED \in StartupGpioLED
    /\ ledOn = FALSE
    /\ state = 0
    /\ gpio = AllLow
    /\ requested = {}
    /\ exported = {}
    /\ sysfs = FALSE
    /\ modpc = "insmod"
    /\ pc = "none"
    /\ shouldStop = FALSE
    /\ m1 = NoMode
    /\ branch = NoMode
    /\ slept = -1
    /\ tick = NoTick
    /\ trace = <<>>
    /\ written = FALSE
    /\ afterStop = 0
    /\ lateWrite = FALSE
    /\ modesHeld = {}
    /\ lastOp = NoOp
    /\ modeLog = NoLog

\* ------------------------------------------------------- sysfs callbacks
\* The attribute files exist and the module text is loaded.
AttrsLive == sysfs /\ modpc \in {"loaded", "stopping"}

\* mode_show returns ModeText(mode) and changes nothing.
mode_show ==
    /\ AttrsLive
    /\ UNCHANGED ctlvars
    /\ UNCHANGED modvars
    /\ UNCHANGED loopvars
    /\ UNCHANGED <<trace, modesHeld>>

mode_store(buf) ==
    /\ AttrsLive
    /\ mode' = ModeAfterStore(buf, Len(buf), mode)
    /\ modesHeld' = IF modesHeld = {} THEN {} ELSE modesHeld \cup {mode'}
    /\ written' = TRUE
    /\ trace' = <<>>
    /\ UNCHANGED blinkPeriod
    /\ UNCHANGED modvars
    /\ UNCHANGED loopvars

\* period_show returns PeriodText(blinkPeriod) and changes nothing.
period_show ==
    /\ AttrsLive
    /\ UNCHANGED ctlvars
    /\ UNCHANGED modvars
    /\ UNCHANGED loopvars
    /\ UNCHANGED <<trace, modesHeld>>

period_store(buf) ==
    /\ AttrsLive
    /\ LET r == ScanDecimal(buf)
       IN  \E period \in (IF r.ok THEN {r.val} ELSE GarbagePeriods) :
               blinkPeriod' = PeriodAfterStore(period, blinkPeriod)
    /\ written' = TRUE
    /\ trace' = <<>>
    /\ UNCHANGED <<mode, modesHeld>>
    /\ UNCHANGED modvars
    /\ UNCHANGED loopvars

\* ------------------------------------------------------ the flash thread
\* The loop test honouring a stop only at the start of a sequence.
LoopContinues_Lazy == ~shouldStop \/ state # 0

\* while (!kthread_should_stop())
LoopContinues == ~shouldStop

\* kthread(): the thread function is entered unless a stop was already asked.
flash_start ==
    /\ pc = "created"
    /\ pc' = IF shouldStop THEN "exited" ELSE "while"
    /\ UNCHANGED <<state, gpio, m1, branch, slept, tick, afterStop, lateWrite>>
    /\ UNCHANGED <<ctlvars, modvars, opvars, trace, modesHeld>>

\* The loop test holds: enter the body.
flash_while ==
    /\ pc = "while"
    /\ LoopContinues
    /\ pc' = "if_der"
    /\ modesHeld' = {mode}
    /\ UNCHANGED <<state, gpio, m1, branch, slept, tick, afterStop, lateWrite>>
    /\ UNCHANGED <<ctlvars, modvars, opvars, trace>>

\* The loop test fails: log and return 0.
flash_return ==
    /\ pc = "while"
    /\ ~LoopContinues
    /\ pc' = "exited"
    /\ UNCHANGED <<state, gpio, m1, branch, slept, tick, afterStop, lateWrite>>
    /\ UNCHANGED <<ctlvars, modvars, opvars, trace, modesHeld>>

\* if (mode==DER)
flash_if_DER ==
    /\ pc = "if_der"
    /\ IF mode = DER
       THEN branch' = DER /\ m1' = NoMode /\ pc' = "switch"
       ELSE branch' = NoMode /\ m1' = mode /\ pc' = "if_izq"
    /\ UNCHANGED <<state, gpio, slept, tick, afterStop, lateWrite>>
    /\ UNCHANGED <<ctlvars, modvars, opvars, trace, modesHeld>>

\* else if (mode==IZQ) ... else: mode is a plain variable written by mode_store
\* without synchronisation, so the test uses either the value already loaded
\* or a second load.
flash_if_IZQ ==
    /\ pc = "if_izq"
    /\ \E v \in {m1, mode} : branch' = IF v = IZQ THEN IZQ ELSE CORRE
    /\ m1' = NoMode
    /\ pc' = "switch"
    /\ UNCHANGED <<state, gpio, slept, tick, afterStop, lateWrite>>
    /\ UNCHANGED <<ctlvars, modvars, opvars, trace, modesHeld>>

\* switch (state) { ... } of the chosen branch
flash_switch ==
    /\ pc = "switch"
    /\ LET r == Switch(branch, state, gpio)
       IN  /\ gpio' = r.gpio
           /\ state' = r.state
           /\ trace' = IF ~written /\ Len(trace) < MaxTicks
                       THEN Append(trace, [pre |-> state, post |-> r.state,
                                           gpio |-> r.gpio])
                       ELSE trace
           /\ lateWrite' = (lateWrite \/
                             (modpc = "unloaded" /\ state < SeqLen(branch)))
    /\ tick' = [branch |-> branch, pre |-> state]
    /\ afterStop' = IF shouldStop /\ afterStop < StopTickCap
                    THEN afterStop + 1 ELSE afterStop
    /\ branch' = NoMode
    /\ modesHeld' = {}
    /\ pc' = "msleep"
    /\ UNCHANGED <<m1, slept>>
    /\ UNCHANGED <<ctlvars, modvars, opvars>>

\* msleep(blinkPeriod/2): the call is made
flash_msleep ==
    /\ pc = "msleep"
    /\ slept' = blinkPeriod \div 2
    /\ pc' = "sleeping"
    /\ UNCHANGED <<state, gpio, m1, branch, tick, afterStop, lateWrite>>
    /\ UNCHANGED <<ctlvars, modvars, opvars, trace, modesHeld>>

\* msleep returns once the time has passed, whether or not a stop was asked.
flash_wake ==
    /\ pc = "sleeping"
    /\ slept' = -1
    /\ pc' = "while"
    /\ UNCHANGED <<state, gpio, m1, branch, tick, afterStop, lateWrite>>
    /\ UNCHANGED <<ctlvars, modvars, opvars, trace, modesHeld>>

\* ------------------------------------------------------ load and unload
\* kobject_create_and_add fails: return -ENOMEM.
erpi_LED_init_nomem ==
    /\ modpc = "insmod"
    /\ modpc' = "failed"
    /\ UNCHANGED <<ledOn, requested, exported, sysfs, gpioLED, shouldStop>>
    /\ UNCHANGED <<ctlvars, loopvars, opvars, trace, modesHeld>>

\* sysfs_create_group fails: kobject_put and return the error.
erpi_LED_init_nogroup ==
    /\ modpc = "insmod"
    /\ modpc' = "failed"
    /\ sysfs' = FALSE
    /\ UNCHANGED <<ledOn, requested, exported, gpioLED, shouldStop>>
    /\ UNCHANGED <<ctlvars, loopvars, opvars, trace, modesHeld>>

\* The lines gpio_request obtains: its result is not tested, so the rest of
\* erpi_LED_init runs whether or not every line was obtained.
RequestOutcomes == {LEDS, LEDS \ {LED1}}

\* The group is created, the lines are set up, kthread_run succeeds or fails.
erpi_LED_init_run(held, threadOk) ==
    /\ modpc = "insmod"
    /\ sysfs' = TRUE
    /\ ledOn' = TRUE
    /\ requested' = held
    /\ gpio' = [l \in LEDS |-> TRUE]
    /\ exported' = held
    /\ IF threadOk
       THEN pc' = "created" /\ modpc' = "loaded"
       ELSE pc' = pc /\ modpc' = "failed"
    /\ UNCHANGED <<gpioLED, shouldStop>>
    /\ UNCHANGED <<state, m1, branch, slept, tick, afterStop, lateWrite>>
    /\ UNCHANGED <<ctlvars, opvars, trace, modesHeld>>

\* kthread_stop returning without waiting for the thread.
ThreadJoined_NoWait == pc \in {"exited", "while", "if_der", "if_izq", "switch",
                               "msleep", "sleeping", "created"}

\* kthread_stop(task) returns once the thread function has returned.
ThreadJoined == pc = "exited"

\* erpi_LED_exit up to the point where kthread_stop blocks.
erpi_LED_exit_stop ==
    /\ modpc = "loaded"
    /\ shouldStop' = TRUE
    /\ modpc' = "stopping"
    /\ UNCHANGED <<ledOn, requested, exported, sysfs, gpioLED>>
    /\ UNCHANGED <<ctlvars, loopvars, opvars, trace, modesHeld>>

\* The rest of erpi_LED_exit: kobject_put, gpio_set_value(gpioLED, 0),
\* gpio_unexport and gpio_free of gpioLED and of LED1..LED4.
erpi_LED_exit_release ==
    /\ modpc = "stopping"
    /\ ThreadJoined
    /\ sysfs' = FALSE
    /\ gpio' = [l \in LEDS |-> IF l = gpioLED THEN FALSE ELSE gpio[l]]
    /\ exported' = {}
    /\ requested' = {}
    /\ modpc' = "unloaded"
    /\ UNCHANGED <<ledOn, gpioLED, shouldStop>>
    /\ UNCHANGED <<state, pc, m1, branch, slept, tick, afterStop, lateWrite>>
    /\ UNCHANGED <<ctlvars, opvars, trace, modesHeld>>

\* ------------------------------------------------------------ behaviours
Flash ==
    \/ flash_start
    \/ flash_while
    \/ flash_return
    \/ flash_if_DER
    \/ flash_if_IZQ
    \/ flash_switch
    \/ flash_msleep
    \/ flash_wake

Load ==
    \/ erpi_LED_init_nomem
    \/ erpi_LED_init_nogroup
    \/ \E held \in RequestOutcomes, ok \in BOOLEAN : erpi_LED_init_run(held, ok)

\* The whole module: load, the thread, the callbacks in any order, unload.
Next ==
    \/ Load
    \/ erpi_LED_exit_stop
    \/ erpi_LED_exit_release
    \/ mode_show /\ UNCHANGED opvars
    \/ \E buf \in ModePayloads : mode_store(buf) /\ UNCHANGED opvars
    \/ period_show /\ UNCHANGED opvars
    \/ \E buf \in PeriodPayloads : period_store(buf) /\ UNCHANGED opvars
    \/ Flash

Spec == Init /\ [][Next]_vars

\* The callbacks alone, against a loaded module, each recorded in lastOp and
\* modeLog together with the values it found.
ctl_mode_show ==
    /\ mode_show
    /\ lastOp' = [op |-> "mode_show", buf |-> <<>>, out |-> ModeText(mode),
                  mode0 |-> mode, period0 |-> blinkPeriod]
    /\ modeLog' = [modeLog EXCEPT !.rout = ModeText(mode)]

ctl_mode_store(buf) ==
    /\ mode_store(buf)
    /\ lastOp' = [op |-> "mode_store", buf |-> buf, out |-> <<>>,
                  mode0 |-> mode, period0 |-> blinkPeriod]
    /\ modeLog' = [wbuf |-> buf, mode0 |-> mode, echo |-> (buf = modeLog.rout),
                   rout |-> <<>>]

ctl_period_show ==
    /\ period_show
    /\ lastOp' = [op |-> "period_show", buf |-> <<>>,
                  out |-> PeriodText(blinkPeriod),
                  mode0 |-> mode, period0 |-> blinkPeriod]
    /\ UNCHANGED modeLog

ctl_period_store(buf) ==
    /\ period_store(buf)
    /\ lastOp' = [op |-> "period_store", buf |-> buf, out |-> <<>>,
                  mode0 |-> mode, period0 |-> blinkPeriod]
    /\ UNCHANGED modeLog

NextCtl ==
    \/ Load
    \/ ctl_mode_show
    \/ \E buf \in ModePayloads : ctl_mode_store(buf)
    \/ ctl_period_show
    \/ \E buf \in PeriodPayloads : ctl_period_store(buf)

SpecCtl == Init /\ [][NextCtl]_vars

\* The loop alone with the mode held fixed, started at the loop test from any
\* mode and any counter and line levels that iterations of the loop produce.
RECURSIVE Settled(_)
Settled(S) ==
    LET T == S \cup {Switch(b, p.state, p.gpio) : b \in Modes, p \in S}
    IN  IF T = S THEN S ELSE Settled(T)

LoopStates == Settled({[gpio |-> AllHigh, state |-> 0]})

InitFixed ==
    /\ mode \in Modes
    /\ \E p \in LoopStates : state = p.state /\ gpio = p.gpio
    /\ blinkPeriod = DefaultBlinkPeriod
    /\ gpioLED = DefaultGpioLED
    /\ ledOn = TRUE
    /\ requested = LEDS
    /\ exported = LEDS
    /\ sysfs = TRUE
    /\ modpc = "loaded"
    /\ pc = "while"
    /\ shouldStop = FALSE
    /\ m1 = NoMode
    /\ branch = NoMode
    /\ slept = -1
    /\ tick = NoTick
    /\ trace = <<>>
    /\ written = FALSE
    /\ afterStop = 0
    /\ lateWrite = FALSE
    /\ modesHeld = {}
    /\ lastOp = NoOp
    /\ modeLog = NoLog

NextFixed ==
    \/ flash_while
    \/ flash_if_DER
    \/ flash_if_IZQ
    \/ flash_switch
    \/ flash_msleep
    \/ flash_wake

SpecFixed == InitFixed /\ [][NextFixed]_vars

\* ---------------------------------------------------------------- claims
\* The lines that are high.
HighLines == {l \in LEDS : gpio[l]}

\* The counter values that index the sequence of mode m.
ValidIndex(m) == 0..(SeqLen(m) - 1)

\* A written buffer without its trailing newline.
Strip(buf) ==
    IF Len(buf) > 0 /\ buf[Len(buf)] = NL THEN SubSeq(buf, 1, Len(buf) - 1)
    ELSE buf

Tokens == {TokIzq, TokCorre, TokDer}

\* s is the decimal text of an integer: an optional '-' and digits.
IsIntegerText(s) ==
    LET d == IF Len(s) > 0 /\ s[1] = "-" THEN Tail(s) ELSE s
    IN  Len(d) > 0 /\ \A i \in 1..Len(d) : d[i] \in DigitChars

\* s without its leading zeros (a digit text).
RECURSIVE NoLeadingZeros(_)
NoLeadingZeros(s) ==
    IF Len(s) > 1 /\ s[1] = "0" THEN NoLeadingZeros(Tail(s)) ELSE s

\* The number a digit text of at most five digits denotes.
RECURSIVE SmallValue(_)
SmallValue(s) ==
    IF s = <<>> THEN 0
    ELSE 10 * SmallValue(SubSeq(s, 1, Len(s) - 1)) + DigitVal(s[Len(s)])

\* The integer v that s denotes satisfies 1 < v <= 10000.
DenotesInRange(s) ==
    /\ IsIntegerText(s)
    /\ s[1] # "-"
    /\ Len(NoLeadingZeros(s)) <= 5
    /\ SmallValue(NoLeadingZeros(s)) > 1
    /\ SmallValue(NoLeadingZeros(s)) <= 10000

\* C1: with the mode fixed at m, an iteration of flash() that starts with a
\* counter valid for m leaves exactly one of LED1..LED4 high and a counter
\* that is again valid for m.
C1_TickKeepsOneHigh ==
    (pc = "msleep" /\ tick.pre \in ValidIndex(mode))
        => (Cardinality(HighLines) = 1 /\ state \in ValidIndex(mode))

C1_Witness ==
    /\ pc = "msleep"
    /\ mode = CORRE
    /\ tick = [branch |-> CORRE, pre |-> 5]
    /\ state = 0
    /\ HighLines = {LED3}

\* C2: with the mode fixed at m and a start counter c valid for m, the counter
\* is back at c after exactly SeqLen(m) iterations and not after fewer, and
\* iteration SeqLen(m)+1 applies the pattern iteration 1 applied.
C2_CycleReturns ==
    (Len(trace) > 0 /\ trace[1].pre \in ValidIndex(mode)) =>
        \A k \in 1..Len(trace) :
            /\ (k < SeqLen(mode)) => trace[k].post # trace[1].pre
            /\ (k = SeqLen(mode)) => trace[k].post = trace[1].pre
            /\ (k = SeqLen(mode) + 1) => trace[k].gpio = trace[1].gpio

C2_Witness ==
    /\ mode = CORRE
    /\ Len(trace) = 7
    /\ trace[1].pre = 2
    /\ trace[6].post = 2
    /\ trace[7].gpio = Only(LED2)

\* The order in which the SweepRight sequence lights the lines.
SweepRightOrder == <<LED1, LED2, LED3, LED4>>

\* C3: started with the default mode and no store made, iteration 1 sets LED1
\* alone high, iteration 2 LED2, iteration 3 LED3, iteration 4 LED4, and so on
\* with period 4.
C3_DefaultSweepRight ==
    ~written =>
        \A i \in 1..Len(trace) :
            trace[i].gpio = Only(SweepRightOrder[((i - 1) % 4) + 1])

C3_Witness ==
    /\ ~written
    /\ Len(trace) = 5
    /\ HighLines = {LED1}
    /\ pc = "sleeping"

\* C4: a period write of the integer v stores v if and only if 1 < v <= 10000,
\* and leaves the period as it was for every other integer v.
C4_PeriodWriteIffInRange ==
    (lastOp.op = "period_store" /\ IsIntegerText(Strip(lastOp.buf))) =>
        IF DenotesInRange(Strip(lastOp.buf))
        THEN blinkPeriod = SmallValue(NoLeadingZeros(Strip(lastOp.buf)))
        ELSE blinkPeriod = lastOp.period0

\* C5: in every reachable state of the loaded module the stored period
\* satisfies 1 < period <= 10000, whatever the blinkPeriod parameter was at
\* load and whatever period writes and loop iterations have happened.
C5_PeriodAlwaysInRange ==
    modpc = "loaded" => (blinkPeriod > 1 /\ blinkPeriod <= 10000)

\* C6: a mode write whose payload, its trailing newline removed, is not one of
\* "izq", "corre", "der" leaves the mode unchanged.
C6_UnrecognisedModeIgnored ==
    (lastOp.op = "mode_store" /\ Strip(lastOp.buf) \notin Tokens)
        => mode = lastOp.mode0

\* C7: a mode write of a token t followed by a mode read, with no mode write
\* in between, returns t; and writing back what a mode read returned leaves
\* the mode unchanged.
C7_ModeRoundTrip ==
    /\ (modeLog.rout # <<>> /\ Strip(modeLog.wbuf) \in Tokens)
           => modeLog.rout = Strip(modeLog.wbuf) \o <<NL>>
    /\ modeLog.echo => mode = modeLog.mode0

C7_Witness ==
    /\ modeLog.wbuf = TokCorre \o <<NL>>
    /\ modeLog.echo
    /\ modeLog.rout = TokCorre \o <<NL>>
    /\ lastOp.op = "mode_show"

\* C8: the counter is in 0..5 in every reachable state, also after an
\* iteration that ran with a counter left by another mode, and it is 4 or 5
\* only as the result of an iteration of the corre sequence.
C8_CounterBounded ==
    /\ state \in 0..5
    /\ state \in {4, 5} => tick.branch = CORRE

C8_Witness ==
    /\ pc = "msleep"
    /\ tick = [branch |-> DER, pre |-> 5]
    /\ state = 0

\* C9: once kthread_stop is called the loop runs at most one more iteration
\* body; once the loop has seen the stop flag the thread stays terminated and
\* runs no iteration, so the lines change only by erpi_LED_exit.
C9_StopsWithinOneTick ==
    /\ [](afterStop <= 1)
    /\ [][pc = "exited" =>
            /\ pc' = "exited"
            /\ state' = state
            /\ tick' = tick
            /\ (gpio' = gpio \/ modpc' = "unloaded")]_vars

C9_Witness ==
    /\ pc = "exited"
    /\ afterStop = 1
    /\ tick.branch # NoMode

\* C10: erpi_LED_exit releases the lines only after the loop thread has
\* terminated, and the loop writes no line after the release.
C10_ReleaseAfterJoin ==
    /\ modpc = "unloaded" => pc = "exited"
    /\ ~lateWrite

C10_Witness ==
    /\ modpc = "unloaded"
    /\ requested = {}
    /\ afterStop = 1
    /\ tick.branch # NoMode

\* C11: the sequence an iteration executes is a value that mode held at some
\* moment of that iteration; in particular the corre sequence is not executed
\* when mode was only IZQ or DER during the iteration.
C11_BranchFromOneRead ==
    pc = "switch" => branch \in modesHeld

\* The first line of the DER and IZQ sequences.
FirstLine(b) == IF b = DER THEN LED1 ELSE LED4

C13_CounterValidForMode ==
    /\ pc = "if_der" => state \in ValidIndex(mode)
    /\ (pc = "switch" /\ tick # NoTick /\ SeqLen(tick.branch) # SeqLen(branch))
           => state = 0

\* C14: once erpi_LED_exit has completed, the four lines LED1..LED4 are all
\* low and all released, whatever pattern was shown last and whatever gpioLED
\* is.
C14_ExitLeavesLinesLow ==
    modpc = "unloaded" => (HighLines = {} /\ requested = {} /\ exported = {})

\* C15: when a line could not be reserved, erpi_LED_init has returned an
\* error, the thread was not started and no line was written; and whenever
\* erpi_LED_init has returned an error (thread creation included) nothing it
\* acquired is still held.
C15_InitFailureIsClean ==
    /\ (ledOn /\ modpc # "unloaded" /\ requested # LEDS)
           => (modpc = "failed" /\ pc = "none" /\ gpio = AllLow)
    /\ modpc = "failed" => (~sysfs /\ requested = {} /\ exported = {})

\* C16: at the end of every iteration the loop sleeps for exactly half of the
\* period stored at the moment the sleep starts, rounded down, and that
\* duration is at least 1 ms.
C16_SleepsHalfPeriod ==
    [][(pc = "msleep" /\ pc' = "sleeping")
        => (slept' = blinkPeriod \div 2 /\ slept' >= 1)]_vars

\* The token that names mode m.
TokenOf(m) == IF m = IZQ THEN TokIzq ELSE IF m = CORRE THEN TokCorre ELSE TokDer

\* A step of one of the four attribute callbacks: neither the thread nor the
\* load and unload functions move.
CallbackStep == pc' = pc /\ modpc' = modpc

\* The callbacks leave counter and lines alone, each write leaves the other
\* field alone, and only callbacks change mode and period.
FrameOfFields ==
    [][ /\ CallbackStep => (state' = state /\ gpio' = gpio)
        /\ (\E buf \in ModePayloads : mode_store(buf))
               => blinkPeriod' = blinkPeriod
        /\ (\E buf \in PeriodPayloads : period_store(buf)) => mode' = mode
        /\ Flash => (mode' = mode /\ blinkPeriod' = blinkPeriod)
        /\ mode' # mode => CallbackStep
        /\ blinkPeriod' # blinkPeriod => CallbackStep
      ]_vars

\* A write that changes its field changes it to the value its payload
\* denotes: a token for mode, an integer v with 1 < v <= 10000 for the period.
ChangeIsAcceptedValue ==
    [][ /\ \A buf \in ModePayloads :
               (mode_store(buf) /\ mode' # mode) => Strip(buf) = TokenOf(mode')
        /\ \A buf \in PeriodPayloads :
               (period_store(buf) /\ blinkPeriod' # blinkPeriod)
                   => /\ DenotesInRange(Strip(buf))
                      /\ blinkPeriod' = SmallValue(NoLeadingZeros(Strip(buf)))
      ]_vars

\* C17: the attribute callbacks leave the loop counter and the four lines
\* unchanged; a mode write leaves the period unchanged and a period write the
\* mode; a loop step leaves mode and period unchanged; and after any
\* interleaving of writes each of mode and period is the value of the last
\* accepted write to that field.
C17_FieldsOwnedByTheirWrites ==
    FrameOfFields /\ ChangeIsAcceptedValue

\* s does not start with a decimal integer: it is empty or its first
\* character is neither a digit nor a '-' followed by a digit.
NotANumber(s) ==
    \/ s = <<>>
    \/ /\ s[1] \notin DigitChars
       /\ ~(s[1] = "-" /\ Len(s) > 1 /\ s[2] \in DigitChars)

\* C18: a period write whose payload does not parse as a decimal integer
\* (empty, alphabetic) leaves the period as it was.
C18_UnparsablePeriodIgnored ==
    (lastOp.op = "period_store" /\ NotANumber(Strip(lastOp.buf)))
        => blinkPeriod = lastOp.period0

\* C19: from the end of the loop's first iteration on, whenever the loop is
\* between iterations (about to sleep, asleep, or back at the loop test)
\* exactly one of the four lines is high, whatever writes were interleaved and
\* whatever the counter was, out of range included.
C19_OneHighBetweenTicks ==
    (tick # NoTick /\ pc \in {"msleep", "sleeping", "while"})
        => Cardinality(HighLines) = 1

C19_Witness ==
    /\ pc = "sleeping"
    /\ tick = [branch |-> DER, pre |-> 4]
    /\ written
    /\ HighLines = {LED1}

\* The whole system with a fair loop thread: the scheduler keeps running the
\* kernel thread and every msleep returns.
SpecLive == Init /\ [][Next]_vars /\ WF_vars(Flash)

\* C20: if the module stays loaded (no stop is requested) and the mode
\* eventually stays at some value m, each of the four lines is high infinitely
\* often, whichever mode m is and whatever the counter was when the mode last
\* changed.
C20_EveryLineKeepsLighting ==
    \A m \in Modes : \A l \in LEDS :
        <>[](modpc = "loaded" /\ mode = m) => []<>(pc = "msleep" /\ HighLines = {l})

C20_Witness ==
    /\ modpc = "loaded"
    /\ written
    /\ mode = IZQ
    /\ pc = "msleep"
    /\ tick = [branch |-> IZQ, pre |-> 5]

====
